---- MODULE Spec2Model ----
(***************************************************************************)
(* The Transunion lead notebook: query_transunion (the Fetcher) and        *)
(* process_tu_lead (the Normalizer), and the two notebook cells that call  *)
(* them.  And the Feature Store notebook's cell that creates the feature   *)
(* group and waits for it (wait_for_feature_group_creation_complete),      *)
(* next to the service that moves the group's status meanwhile.            *)
(*                                                                         *)
(* Python values are tagged records, so that None, a string, an integer,   *)
(* a dict and a list are never confused.  A string is the sequence of its  *)
(* characters, so that str.lower(), the f-string of the composite key and  *)
(* int() are computed character by character.  A dict is a function whose  *)
(* domain is the set of its keys (Python values themselves: the score loop *)
(* can write the key None).                                                *)
(***************************************************************************)
EXTENDS Integers, Sequences, FiniteSets, TLC

----------------------------------------------------------------------------
(* Bounds of the model.                                                    *)

\* longest `score` sequence of a lead record
MaxScores == 2
\* how often the cell line `processed_lead = process_tu_lead(lead)` is run on one lead
MaxCalls == 2
\* how often the two-line cell is run again from its first line (SpecRerun)
MaxRuns == 3
\* how often the wait loop sleeps before the model stops following it (SpecFS)
MaxPolls == 4
\* most objects the offline store holds under the prefix
MaxObjects == 2
\* the count of the offline-store loop's sleeps stops growing here (the loop
\* itself goes on)
MaxWaits == 3

----------------------------------------------------------------------------
(* The state: the notebook's names, the last call of each function, and    *)
(* the three mappings of process_tu_lead's last call.                      *)

VARIABLES
  pc,               \* where the notebook is: "start", "fetched", "done",
                    \* "fetch_failed", "process_failed"
  requests_sent,    \* HTTP POSTs sent so far
  response,         \* what the transport handed back to the last POST
  response_json,    \* the parsed body of the last response (Unset: none parsed)
  fetched,          \* what the last call of query_transunion ended with
  lead,             \* the notebook's `lead`
  result,           \* what the last call of process_tu_lead ended with
  processed_lead,   \* the notebook's `processed_lead`
  personal_output,  \* process_tu_lead's personal_output, as last left
  demo_output,      \* process_tu_lead's demo_output, as last left
  scores_output,    \* process_tu_lead's scores_output, as last left
  calls,            \* calls of process_tu_lead on the current `lead`
  runs,             \* runs of the cell
  history,          \* history: for every lead normalised so far, what its
                    \* first call ended with and the run it was in
  nb_pc,            \* where the Feature Store notebook is: "create",
                    \* "describe", "test", "sleep", "check", "returned", "raised"
  fg_status,        \* the service's FeatureGroupStatus of the group
                    \* ("none": there is no such group)
  status,           \* the local `status` of the wait function (Unset: not assigned)
  polls,            \* time.sleep(5) calls of the wait loop
  printed,          \* what the cell has printed, in order
  reads,            \* history: the statuses describe() has handed back, in order
  wait_result,      \* what the call of the wait function ended with
  ingested,         \* clinical_feature_group.ingest(...) has put the records
  store_objects,    \* objects the offline store holds under the prefix
  objects_in_bucket,       \* the last listing (Unset: none yet)
  offline_store_contents,  \* the notebook's offline_store_contents
  offline_waits,    \* sleep(60) calls of the offline-store loop (up to MaxWaits)
  query_state,      \* the state of the Athena query ("none": not run)
  training_status,  \* the status of the training job ("none": not started)
  endpoint_status,  \* the status of the endpoint ("none": not deployed)
  events            \* history: the steps of the notebook, as they happened

\* the names of the Transunion notebook
tuvars == <<pc, requests_sent, response, response_json, fetched, lead, result,
            processed_lead, personal_output, demo_output, scores_output, calls,
            runs, history>>
\* the names of the Feature Store notebook, and the service's status
fsvars == <<nb_pc, fg_status, status, polls, printed, reads, wait_result>>

\* the locals of the wait function, and what it printed
waitvars == <<status, polls, printed, reads, wait_result>>
\* the rest of the Feature Store notebook, and the services behind it
nbvars == <<ingested, store_objects, objects_in_bucket, offline_store_contents,
            offline_waits, query_state, training_status, endpoint_status, events>>

vars == <<tuvars, fsvars, nbvars>>

----------------------------------------------------------------------------
(* Python values.                                                          *)

None == [t |-> "none"]
Str(s) == [t |-> "str", s |-> s]
IntV(n) == [t |-> "int", n |-> n]
Dict(d) == [t |-> "dict", d |-> d]
List(l) == [t |-> "list", l |-> l]
\* a notebook name that no cell has assigned yet
Unset == [t |-> "unset"]

\* the dict literal {}
EmptyDict == [k \in {} |-> None]

\* bool(v), as `if v:` evaluates it
Truthy(v) ==
  CASE v.t = "none" -> FALSE
    [] v.t = "str" -> Len(v.s) > 0
    [] v.t = "int" -> v.n # 0
    [] v.t = "dict" -> DOMAIN v.d # {}
    [] v.t = "list" -> Len(v.l) > 0
    [] OTHER -> FALSE

\* d.get(k) on the key-value function of a dict
Get(d, k) == IF k \in DOMAIN d THEN d[k] ELSE None

\* d[k] = v
Put(d, k, v) == [x \in (DOMAIN d) \cup {k} |-> IF x = k THEN v ELSE d[x]]

\* d.update(e)
Update(d, e) ==
  [x \in (DOMAIN d) \cup (DOMAIN e) |-> IF x \in DOMAIN e THEN e[x] ELSE d[x]]

\* only str, int and None are hashable among the values of the model
Hashable(v) == v.t \in {"none", "str", "int"}

----------------------------------------------------------------------------
(* Strings: str.lower(), the f-string, int().                              *)

UpperChars ==
  <<"A","B","C","D","E","F","G","H","I","J","K","L","M",
    "N","O","P","Q","R","S","T","U","V","W","X","Y","Z">>
LowerChars ==
  <<"a","b","c","d","e","f","g","h","i","j","k","l","m",
    "n","o","p","q","r","s","t","u","v","w","x","y","z">>

LowerChar(c) ==
  IF \E i \in 1..Len(UpperChars) : UpperChars[i] = c
  THEN LowerChars[CHOOSE i \in 1..Len(UpperChars) : UpperChars[i] = c]
  ELSE c

\* Mutant of Lower: the value is written as it came.
LowerForgotten(s) == s

\* s.lower()
Lower(s) == [i \in 1..Len(s) |-> LowerChar(s[i])]

\* Mutant of CompositeKey: the key is the qualifier alone.
CompositeKeyQualifierOnly(var_name, sub_var_name) == sub_var_name

\* Mutant of CompositeKey: the key is the field name alone.
CompositeKeyFieldOnly(var_name, sub_var_name) == var_name

\* f'{var_name}_{sub_var_name}'
CompositeKey(var_name, sub_var_name) == var_name \o <<"_">> \o sub_var_name

Digits == <<"0","1","2","3","4","5","6","7","8","9">>
IsDigit(c) == \E i \in 1..Len(Digits) : Digits[i] = c
DigitVal(c) == (CHOOSE i \in 1..Len(Digits) : Digits[i] = c) - 1

\* the digits of s, read left to right
RECURSIVE Horner(_, _, _)
Horner(s, i, acc) ==
  IF i > Len(s) THEN acc ELSE Horner(s, i + 1, acc * 10 + DigitVal(s[i]))

\* the part of a numeral after its optional sign
Unsigned(s) ==
  IF Len(s) > 0 /\ s[1] \in {"-", "+"} THEN SubSeq(s, 2, Len(s)) ELSE s

\* whether int(s) accepts the string s (over the alphabet of the model:
\* digits, signs and letters; no blanks, no underscores)
IsNumeral(s) ==
  /\ Len(Unsigned(s)) > 0
  /\ \A i \in 1..Len(Unsigned(s)) : IsDigit(Unsigned(s)[i])

\* int(v): the value, or the exception int() raises
PyInt(v) ==
  CASE v.t = "int" -> [exc |-> "none", n |-> v.n]
    [] v.t = "str" ->
         IF IsNumeral(v.s)
         THEN [exc |-> "none",
               n |-> IF v.s[1] = "-" THEN 0 - Horner(Unsigned(v.s), 1, 0)
                     ELSE Horner(Unsigned(v.s), 1, 0)]
         ELSE [exc |-> "ValueError", n |-> 0]
    [] OTHER -> [exc |-> "TypeError", n |-> 0]

----------------------------------------------------------------------------
(* The names the code uses as keys.                                        *)

K_transaction == <<"t","r","a","n","s","a","c","t","i","o","n">>
K_output == <<"o","u","t","p","u","t">>
K_data == <<"d","a","t","a">>
K_demo == <<"d","e","m","o">>
K_score == <<"s","c","o","r","e">>
K_name == <<"n","a","m","e">>
K_email == <<"e","m","a","i","l">>
K_phone == <<"p","h","o","n","e">>
K_first == <<"f","i","r","s","t">>
K_last == <<"l","a","s","t">>
K_age == <<"a","g","e">>
K_years == <<"y","e","a","r","s">>
K_income == <<"i","n","c","o","m","e">>
K_dollars == <<"d","o","l","l","a","r","s">>
K_children == <<"c","h","i","l","d","r","e","n">>
K_yes == <<"y","e","s">>
K_education == <<"e","d","u","c","a","t","i","o","n">>
K_homeowner == <<"h","o","m","e","o","w","n","e","r">>
K_homevalue == <<"h","o","m","e","v","a","l","u","e">>
K_resident == <<"r","e","s","i","d","e","n","t">>
K_occupation == <<"o","c","c","u","p","a","t","i","o","n">>
K_affiliation == <<"a","f","f","i","l","i","a","t","i","o","n">>
K_conservative == <<"c","o","n","s","e","r","v","a","t","i","v","e">>
K_liberal == <<"l","i","b","e","r","a","l">>

personal_variables == <<K_email, K_phone, K_first, K_last>>

demo_variables ==
  << <<K_age, K_years>>, <<K_income, K_dollars>>, <<K_children, K_yes>>,
     <<K_education, K_years>>, <<K_homeowner, K_yes>>, <<K_homevalue, K_dollars>>,
     <<K_resident, K_years>>, <<K_occupation, K_first>>,
     <<K_affiliation, K_conservative>>, <<K_affiliation, K_liberal>> >>

----------------------------------------------------------------------------
(* query_transunion, from the parsed response on.                          *)

\* What a call ends with: a returned value, or an exception passed to the caller.
Return(v) == [k |-> "return", v |-> v]
Raise(e) == [k |-> "raise", exc |-> e]

\* Mutant of TransactionOutput: the path is indexed, response_json['transaction']
\* ['output'], once `transaction` is known to be there.
TransactionOutputIndexed(parsed) ==
  IF parsed.t # "dict" THEN Raise("AttributeError")
  ELSE IF Str(K_transaction) \in DOMAIN parsed.d
  THEN LET transaction == parsed.d[Str(K_transaction)]
       IN IF transaction.t # "dict" THEN Raise("TypeError")
          ELSE IF Str(K_output) \in DOMAIN transaction.d
          THEN Return(transaction.d[Str(K_output)])
          ELSE Raise("KeyError")
  ELSE Return(None)

\* the if / if / else at the end of query_transunion.  `.keys()` exists on a
\* dict only; the else belongs to the outer if, so a `transaction` without an
\* `output` falls off the end of the function, which returns None.
TransactionOutput(parsed) ==
  IF parsed.t # "dict" THEN Raise("AttributeError")
  ELSE IF Str(K_transaction) \in DOMAIN parsed.d
  THEN LET transaction == parsed.d[Str(K_transaction)]
       IN IF transaction.t # "dict" THEN Raise("AttributeError")
          ELSE IF Str(K_output) \in DOMAIN transaction.d
          THEN Return(transaction.d[Str(K_output)])
          ELSE Return(None)
  ELSE Return(None)

----------------------------------------------------------------------------
(* process_tu_lead.  Each loop is a recursion over the position in the     *)
(* sequence it walks; a loop that raises stops there, and hands back the   *)
(* mapping as it was at that moment.                                       *)

\* personal_output = {}, demo_output = {}, scores_output = {}: each call
\* starts from three new empty mappings
NewPersonalOutput == EmptyDict
NewDemoOutput == EmptyDict
\* Mutant of NewScoresOutput: the mapping of the call before is used again
\* (one mapping made once, outside the call).
ScoresOutputKept == scores_output
NewScoresOutput == EmptyDict

\* Mutant of PersonalLoop: a field the lookup finds nothing for is left out
\* (if personal_variable_output is not None: ...).
RECURSIVE PersonalLoopSkipMissing(_, _, _)
PersonalLoopSkipMissing(personal_data, i, acc) ==
  IF i > Len(personal_variables) THEN [exc |-> "none", out |-> acc]
  ELSE LET personal_variable == personal_variables[i]
           personal_variable_output == Get(personal_data, Str(personal_variable))
       IN IF Truthy(personal_variable_output)
          THEN IF personal_variable_output.t = "str"
               THEN PersonalLoopSkipMissing(personal_data, i + 1,
                      Put(acc, Str(personal_variable),
                          Str(Lower(personal_variable_output.s))))
               ELSE [exc |-> "AttributeError", out |-> acc]
          ELSE IF personal_variable_output = None
          THEN PersonalLoopSkipMissing(personal_data, i + 1, acc)
          ELSE PersonalLoopSkipMissing(personal_data, i + 1,
                 Put(acc, Str(personal_variable), personal_variable_output))

\* Mutant of PersonalLoop: a value that is not truthy is written as None
\* (... = value.lower() if value else None).
RECURSIVE PersonalLoopNullEmpty(_, _, _)
PersonalLoopNullEmpty(personal_data, i, acc) ==
  IF i > Len(personal_variables) THEN [exc |-> "none", out |-> acc]
  ELSE LET personal_variable == personal_variables[i]
           personal_variable_output == Get(personal_data, Str(personal_variable))
       IN IF Truthy(personal_variable_output)
          THEN IF personal_variable_output.t = "str"
               THEN PersonalLoopNullEmpty(personal_data, i + 1,
                      Put(acc, Str(personal_variable),
                          Str(Lower(personal_variable_output.s))))
               ELSE [exc |-> "AttributeError", out |-> acc]
          ELSE PersonalLoopNullEmpty(personal_data, i + 1,
                 Put(acc, Str(personal_variable), None))

\* for personal_variable in personal_variables: ... (personal_data is a dict)
RECURSIVE PersonalLoop(_, _, _)
PersonalLoop(personal_data, i, acc) ==
  IF i > Len(personal_variables) THEN [exc |-> "none", out |-> acc]
  ELSE LET personal_variable == personal_variables[i]
           personal_variable_output == Get(personal_data, Str(personal_variable))
       IN IF Truthy(personal_variable_output)
          THEN IF personal_variable_output.t = "str"
               THEN PersonalLoop(personal_data, i + 1,
                      Put(acc, Str(personal_variable),
                          Str(Lower(personal_variable_output.s))))
               ELSE [exc |-> "AttributeError", out |-> acc]
          ELSE PersonalLoop(personal_data, i + 1,
                 Put(acc, Str(personal_variable),
                     personal_variable_output))

\* Mutant of DemoLoop: a qualifier missing under its field writes no key
\* (if sub_var_name in demo[var_name].keys(): ...).
RECURSIVE DemoLoopSkipMissing(_, _, _)
DemoLoopSkipMissing(demo, i, acc) ==
  IF i > Len(demo_variables) THEN [exc |-> "none", out |-> acc]
  ELSE LET keys == DOMAIN demo
           var_name == demo_variables[i][1]
           sub_var_name == demo_variables[i][2]
       IN IF Str(var_name) \in keys
          THEN IF demo[Str(var_name)].t = "dict"
               THEN IF Str(sub_var_name) \in DOMAIN demo[Str(var_name)].d
                    THEN DemoLoopSkipMissing(demo, i + 1,
                           Put(acc, Str(CompositeKey(var_name, sub_var_name)),
                               Get(demo[Str(var_name)].d, Str(sub_var_name))))
                    ELSE DemoLoopSkipMissing(demo, i + 1, acc)
               ELSE [exc |-> "AttributeError", out |-> acc]
          ELSE DemoLoopSkipMissing(demo, i + 1, acc)

\* for demo_var in demo_variables: ... (demo is a dict)
RECURSIVE DemoLoop(_, _, _)
DemoLoop(demo, i, acc) ==
  IF i > Len(demo_variables) THEN [exc |-> "none", out |-> acc]
  ELSE LET keys == DOMAIN demo
           var_name == demo_variables[i][1]
           sub_var_name == demo_variables[i][2]
       IN IF Str(var_name) \in keys
          THEN IF demo[Str(var_name)].t = "dict"
               THEN DemoLoop(demo, i + 1,
                      Put(acc, Str(CompositeKey(var_name, sub_var_name)),
                          Get(demo[Str(var_name)].d, Str(sub_var_name))))
               ELSE [exc |-> "AttributeError", out |-> acc]
          ELSE DemoLoop(demo, i + 1, acc)

\* Mutant of ScoreEntry: a name already written is kept (setdefault).
ScoreEntryKeepFirst(score, acc) ==
  IF score.t # "dict" THEN [exc |-> "AttributeError", out |-> acc]
  ELSE LET score_name == Get(score.d, Str(K_name))
           converted == PyInt(Get(score.d, Str(K_score)))
       IN IF converted.exc # "none" THEN [exc |-> converted.exc, out |-> acc]
          ELSE IF ~Hashable(score_name) THEN [exc |-> "TypeError", out |-> acc]
          ELSE [exc |-> "none",
                out |-> IF score_name \in DOMAIN acc THEN acc
                        ELSE Put(acc, score_name, IntV(converted.n))]

\* Mutant of ScoreEntry: an entry whose score does not convert is skipped
\* (try / except around int()).
ScoreEntrySkipBad(score, acc) ==
  IF score.t # "dict" THEN [exc |-> "AttributeError", out |-> acc]
  ELSE LET score_name == Get(score.d, Str(K_name))
           converted == PyInt(Get(score.d, Str(K_score)))
       IN IF converted.exc # "none" THEN [exc |-> "none", out |-> acc]
          ELSE IF ~Hashable(score_name) THEN [exc |-> "TypeError", out |-> acc]
          ELSE [exc |-> "none", out |-> Put(acc, score_name, IntV(converted.n))]

\* Mutant of ScoreEntry: the score is written as the string it came as.
ScoreEntryUnconverted(score, acc) ==
  IF score.t # "dict" THEN [exc |-> "AttributeError", out |-> acc]
  ELSE [exc |-> "none",
        out |-> Put(acc, Get(score.d, Str(K_name)), Get(score.d, Str(K_score)))]

\* scores_output[score_name] = int(score_number): the right-hand side is
\* evaluated first, then the key is hashed
ScoreEntry(score, acc) ==
  IF score.t # "dict" THEN [exc |-> "AttributeError", out |-> acc]
  ELSE LET score_name == Get(score.d, Str(K_name))
           score_number == Get(score.d, Str(K_score))
           converted == PyInt(score_number)
       IN IF converted.exc # "none"
          THEN [exc |-> converted.exc, out |-> acc]
          ELSE IF ~Hashable(score_name)
          THEN [exc |-> "TypeError", out |-> acc]
          ELSE [exc |-> "none",
                out |-> Put(acc, score_name, IntV(converted.n))]

\* for score in scores: ... (scores is a list)
RECURSIVE ScoreLoop(_, _, _)
ScoreLoop(scores, i, acc) ==
  IF i > Len(scores) THEN [exc |-> "none", out |-> acc]
  ELSE LET step == ScoreEntry(scores[i], acc)
       IN IF step.exc # "none" THEN step ELSE ScoreLoop(scores, i + 1, step.out)

\* Mutant of PersonalPart: the mapping starts as a copy of the section
\* (personal_output = dict(personal_data)), not empty.
PersonalPartCopyAll(json_lead) ==
  LET personal_data == Get(json_lead, Str(K_data))
  IN IF ~Truthy(personal_data) THEN [exc |-> "none", out |-> NewPersonalOutput]
     ELSE IF personal_data.t # "dict"
     THEN [exc |-> "AttributeError", out |-> NewPersonalOutput]
     ELSE PersonalLoop(personal_data.d, 1, personal_data.d)

\* Mutant of PersonalPart: the section is indexed, json_lead['data'].
PersonalPartIndexed(json_lead) ==
  IF Str(K_data) \notin DOMAIN json_lead
  THEN [exc |-> "KeyError", out |-> NewPersonalOutput]
  ELSE LET personal_data == json_lead[Str(K_data)]
       IN IF ~Truthy(personal_data) THEN [exc |-> "none", out |-> NewPersonalOutput]
          ELSE IF personal_data.t # "dict"
          THEN [exc |-> "AttributeError", out |-> NewPersonalOutput]
          ELSE PersonalLoop(personal_data.d, 1, NewPersonalOutput)

\* the `data` part of the function: personal_output, or the exception
PersonalPart(json_lead) ==
  LET personal_data == Get(json_lead, Str(K_data))
  IN IF ~Truthy(personal_data) THEN [exc |-> "none", out |-> NewPersonalOutput]
     ELSE IF personal_data.t # "dict"
     THEN [exc |-> "AttributeError", out |-> NewPersonalOutput]
     ELSE PersonalLoop(personal_data.d, 1, NewPersonalOutput)

\* the `demo` part: demo_output before the merges, or the exception
DemoPart(json_lead) ==
  LET demo == Get(json_lead, Str(K_demo))
  IN IF ~Truthy(demo) THEN [exc |-> "none", out |-> NewDemoOutput]
     ELSE IF demo.t # "dict" THEN [exc |-> "AttributeError", out |-> NewDemoOutput]
     ELSE DemoLoop(demo.d, 1, NewDemoOutput)

\* the `score` part: scores_output, or the exception
ScorePart(json_lead) ==
  LET scores == Get(json_lead, Str(K_score))
  IN IF ~Truthy(scores) THEN [exc |-> "none", out |-> NewScoresOutput]
     ELSE IF scores.t # "list"
     THEN [exc |-> "AttributeError", out |-> NewScoresOutput]
     ELSE ScoreLoop(scores.l, 1, NewScoresOutput)

\* demo_output.update(personal_output)
MergePersonal(demo_part, personal_part) == Update(demo_part, personal_part)

\* Mutant of MergeScores: the keys already in the mapping are kept.
MergeScoresKeep(merged_part, scores_part) == Update(scores_part, merged_part)

\* demo_output.update(scores_output)
MergeScores(merged_part, scores_part) == Update(merged_part, scores_part)

\* Mutant of IsAbsent: the None check is missing.
IsAbsentUnchecked(json_lead) == FALSE

\* if json_lead is None
IsAbsent(json_lead) == json_lead = None

\* The whole function: what the call ends with (res) and the three mappings
\* as the call leaves them (a call that ends before creating one leaves it
\* as it was).
process_tu_lead(json_lead) ==
  IF IsAbsent(json_lead)
  THEN [res |-> Return(Dict(EmptyDict)), personal_output |-> personal_output,
        demo_output |-> demo_output, scores_output |-> scores_output]
  ELSE IF json_lead.t # "dict"
  THEN [res |-> Raise("AttributeError"), personal_output |-> personal_output,
        demo_output |-> demo_output, scores_output |-> scores_output]
  ELSE
    LET p == PersonalPart(json_lead.d)
    IN IF p.exc # "none"
       THEN [res |-> Raise(p.exc), personal_output |-> p.out,
             demo_output |-> demo_output, scores_output |-> scores_output]
       ELSE
         LET d == DemoPart(json_lead.d)
         IN IF d.exc # "none"
            THEN [res |-> Raise(d.exc), personal_output |-> p.out,
                  demo_output |-> d.out, scores_output |-> scores_output]
            ELSE
              LET merged == MergePersonal(d.out, p.out)
                  s == ScorePart(json_lead.d)
              IN IF s.exc # "none"
                 THEN [res |-> Raise(s.exc), personal_output |-> p.out,
                       demo_output |-> merged, scores_output |-> s.out]
                 ELSE [res |-> Return(Dict(MergeScores(merged, s.out))),
                       personal_output |-> p.out,
                       demo_output |-> MergeScores(merged, s.out),
                       scores_output |-> s.out]

----------------------------------------------------------------------------
(* The inputs: the lead records the service can answer with, built from    *)
(* small sets of sections.                                                 *)

\* the dict of the pairs <<key, value>> whose value is given (not Unset)
MkDict(pairs) ==
  LET present == {p \in pairs : p[2] # Unset}
  IN [k \in {Str(p[1]) : p \in present} |->
        (CHOOSE p \in present : Str(p[1]) = k)[2]]

SeqsUpTo(S, n) == UNION {[1..m -> S] : m \in 0..n}

K_dob == <<"d","o","b">>
K_zip == <<"z","i","p">>
K_range == <<"r","a","n","g","e">>
N_riskA == <<"r","i","s","k","A">>
N_riskB == <<"r","i","s","k","B">>

\* `first`: absent, a name in capitals, the empty string, a number
FirstValues == {Unset, Str(<<"J","O","H","N">>), Str(<< >>), IntV(7)}
\* `email`: absent or an address
EmailValues == {Unset, Str(<<"A","@","b",".","C">>)}

\* the `data` section: absent, empty, or first / email beside a date of birth
DataSections ==
  {Unset, Dict(EmptyDict)} \cup
  {Dict(MkDict({<<K_first, f>>, <<K_email, e>>, <<K_dob, Str(<<"1","9","9","6">>)>>})) :
     f \in FirstValues, e \in EmailValues}

\* `age`: absent, with its qualifier, without it
AgeValues == {Unset, Dict(MkDict({<<K_years, IntV(45)>>})), Dict(EmptyDict)}
\* `affiliation`: absent, or with one of its two qualifiers
AffiliationValues == {Unset, Dict(MkDict({<<K_conservative, IntV(1)>>}))}

\* the `demo` section: absent, empty, age / affiliation beside a field
\* that is none of the ten, or an occupation (whose qualifier is `first`)
DemoSections ==
  {Unset, Dict(EmptyDict)} \cup
  {Dict(MkDict({<<K_age, a>>, <<K_affiliation, f>>,
                <<K_zip, Dict(MkDict({<<K_first, IntV(142)>>}))>>})) :
     a \in AgeValues, f \in AffiliationValues} \cup
  {Dict(MkDict({<<K_occupation,
                  Dict(MkDict({<<K_first, Str(<<"N","u","r","s","e">>)>>}))>>}))}

\* one entry of `score`
ScoreRecord(name, score, range) ==
  Dict(MkDict({<<K_name, name>>, <<K_score, score>>, <<K_range, range>>}))

ScoreEntries ==
  { ScoreRecord(Str(N_riskA), Str(<<"2","2","2">>), Str(<<"0","-","9","9","9">>)),
    ScoreRecord(Str(N_riskA), Str(<<"5","2","0">>), Unset),
    ScoreRecord(Str(N_riskB), Str(<<"-","3">>), Unset),
    \* a name that is a personal field, a name that is a composite key
    ScoreRecord(Str(K_first), Str(<<"5","2","0">>), Unset),
    ScoreRecord(Str(<<"a","g","e","_","y","e","a","r","s">>), Str(<<"2","2","2">>), Unset),
    \* a score that is no numeral
    ScoreRecord(Str(N_riskA), Str(<<"2","2","x">>), Unset),
    \* no name, no score
    ScoreRecord(Unset, Str(<<"2","2","2">>), Unset),
    ScoreRecord(Str(N_riskA), Unset, Unset) }

\* the `score` section: absent, or a sequence of entries (the empty one too)
ScoreSections == {Unset} \cup {List(l) : l \in SeqsUpTo(ScoreEntries, MaxScores)}

LeadOf(data, demo, score) ==
  Dict(MkDict({<<K_data, data>>, <<K_demo, demo>>, <<K_score, score>>}))

\* the lead record the notebook printed for the phone number of its cell
ExampleLead ==
  Dict(MkDict({
    <<<<"a","d","d","r","e","s","s">>, Dict(MkDict({
      <<<<"a","d","d","r","e","s","s">>, Str(<<"7","7"," ","A","L","L","E","N"," ","S","T">>)>>,
      <<<<"c","i","t","y">>, Str(<<"B","U","F","F","A","L","O">>)>>,
      <<<<"s","t","a","t","e">>, Str(<<"N","Y">>)>>,
      <<<<"z","i","p">>, Str(<<"1","4","2","0","2","1","3","1","9">>)>> }))>>,
    <<<<"d","a","t","a">>, Dict(MkDict({
      <<<<"i","n","p","u","t">>, Str(<<"d","a","t","a">>)>>,
      <<<<"f","i","r","s","t">>, Str(<<"J","A","W","H","A","R">>)>>,
      <<<<"l","a","s","t">>, Str(<<"M","O","H","A","M","M","E","D">>)>>,
      <<<<"a","d","d","r","e","s","s">>, Str(<<"7","7"," ","A","L","L","E","N"," ","S","T">>)>>,
      <<<<"c","i","t","y">>, Str(<<"B","U","F","F","A","L","O">>)>>,
      <<<<"c","o","m","p","a","n","y">>, Str(<<"S","E","R","R","A","N","O"," ","M","A","R","I","A"," ","C","O","N","S","U","L","T","A","N","T">>)>>,
      <<<<"d","o","b">>, Str(<<"1","9","9","6","0","9">>)>>,
      <<<<"p","h","o","n","e">>, Str(<<"3","1","2","4","7","8","4","8","9","2">>)>>,
      <<<<"s","t","a","t","e">>, Str(<<"N","Y">>)>>,
      <<<<"z","i","p">>, Str(<<"1","4","2","0","2","1","3","1","9">>)>> }))>>,
    <<<<"v","e","r","i","f","y">>, Dict(MkDict({
      <<<<"i","n","p","u","t">>, Str(<<"d","a","t","a">>)>>,
      <<<<"f","i","r","s","t">>, Str(<<"e","x","a","c","t"," ","m","a","t","c","h">>)>>,
      <<<<"l","a","s","t">>, Str(<<"e","x","a","c","t"," ","m","a","t","c","h">>)>>,
      <<<<"a","d","d","r","e","s","s">>, Str(<<"e","x","a","c","t"," ","m","a","t","c","h">>)>>,
      <<<<"c","o","m","p","a","n","y">>, Str(<<"e","x","a","c","t"," ","m","a","t","c","h">>)>>,
      <<<<"d","o","b">>, Str(<<"e","x","a","c","t"," ","m","a","t","c","h">>)>>,
      <<<<"p","h","o","n","e">>, Str(<<"e","x","a","c","t"," ","m","a","t","c","h">>)>> }))>>,
    <<<<"m","e","s","s","a","g","e">>, List(<<
      Dict(MkDict({
        <<<<"i","n","p","u","t">>, Str(<<"d","a","t","a">>)>>,
        <<<<"c","o","d","e">>, Str(<<"A","A","1","3">>)>>,
        <<<<"m","e","s","s","a","g","e">>, Str(<<"A","p","a","r","t","m","e","n","t"," ","o","r"," ","h","i","g","h","r","i","s","e"," ","a","d","d","r","e","s","s">>)>> })),
      Dict(MkDict({
        <<<<"i","n","p","u","t">>, Str(<<"d","a","t","a">>)>>,
        <<<<"c","o","d","e">>, Str(<<"A","P","0","4">>)>>,
        <<<<"m","e","s","s","a","g","e">>, Str(<<"P","h","o","n","e"," ","i","s"," ","c","e","l","l","u","l","a","r"," ","o","r"," ","m","o","b","i","l","e">>)>> })),
      Dict(MkDict({
        <<<<"i","n","p","u","t">>, Str(<<"d","a","t","a">>)>>,
        <<<<"c","o","d","e">>, Str(<<"A","A","1","7">>)>>,
        <<<<"m","e","s","s","a","g","e">>, Str(<<"A","d","d","r","e","s","s"," ","w","a","s"," ","D","P","V"," ","c","o","n","f","i","r","m","e","d"," ","f","o","r"," ","t","h","e"," ","p","r","i","m","a","r","y"," ","n","u","m","b","e","r"," ","o","n","l","y",","," ","a","n","d"," ","s","e","c","o","n","d","a","r","y"," ","n","u","m","b","e","r"," ","i","n","f","o","r","m","a","t","i","o","n"," ","w","a","s"," ","m","i","s","s","i","n","g">>)>> })),
      Dict(MkDict({
        <<<<"i","n","p","u","t">>, Str(<<"d","a","t","a">>)>>,
        <<<<"c","o","d","e">>, Str(<<"A","A","2","3">>)>>,
        <<<<"m","e","s","s","a","g","e">>, Str(<<"A","d","d","r","e","s","s"," ","i","s"," ","n","o","t"," ","r","e","c","e","i","v","i","n","g"," ","d","e","l","i","v","e","r","y">>)>> })),
      Dict(MkDict({
        <<<<"i","n","p","u","t">>, Str(<<"d","a","t","a">>)>>,
        <<<<"c","o","d","e">>, Str(<<"A","A","1","7">>)>>,
        <<<<"m","e","s","s","a","g","e">>, Str(<<"A","d","d","r","e","s","s"," ","w","a","s"," ","D","P","V"," ","c","o","n","f","i","r","m","e","d"," ","f","o","r"," ","t","h","e"," ","p","r","i","m","a","r","y"," ","n","u","m","b","e","r"," ","o","n","l","y",","," ","a","n","d"," ","s","e","c","o","n","d","a","r","y"," ","n","u","m","b","e","r"," ","i","n","f","o","r","m","a","t","i","o","n"," ","w","a","s"," ","m","i","s","s","i","n","g">>)>> })),
      Dict(MkDict({
        <<<<"i","n","p","u","t">>, Str(<<"d","a","t","a">>)>>,
        <<<<"c","o","d","e">>, Str(<<"A","A","2","3">>)>>,
        <<<<"m","e","s","s","a","g","e">>, Str(<<"A","d","d","r","e","s","s"," ","i","s"," ","n","o","t"," ","r","e","c","e","i","v","i","n","g"," ","d","e","l","i","v","e","r","y">>)>> })) >>)>>,
    <<<<"s","c","o","r","e">>, List(<<
      Dict(MkDict({
        <<<<"n","a","m","e">>, Str(<<"e","b","u","r","e","a","u","-","s","c","o","r","e","-","m","a","r","k","e","t","-","2","0","1","8","0","1","2","2","0","5","0","8">>)>>,
        <<<<"r","a","n","g","e">>, Str(<<"0","-","9","9","9">>)>>,
        <<<<"s","c","o","r","e">>, Str(<<"2","2","2">>)>> })),
      Dict(MkDict({
        <<<<"n","a","m","e">>, Str(<<"e","b","u","r","e","a","u","-","s","c","o","r","e","-","m","a","r","k","e","t","-","2","0","1","8","0","5","1","7","0","5","0","6">>)>>,
        <<<<"r","a","n","g","e">>, Str(<<"3","0","0","-","8","5","0">>)>>,
        <<<<"s","c","o","r","e">>, Str(<<"5","2","0">>)>> })) >>)>> }))

Leads ==
  {LeadOf(data, demo, score) :
     data \in DataSections, demo \in DemoSections, score \in ScoreSections}
  \cup {ExampleLead}

\* the response body that carries a lead record
Answer(l) == Dict(MkDict({<<K_transaction, Dict(MkDict({<<K_output, l>>}))>>}))

\* the parsed bodies: no `transaction`, a `transaction` that is no object,
\* one without `output`, one with a null `output`, a body that is no object,
\* and the answers
Responses(L) ==
  { Dict(EmptyDict),
    Dict(MkDict({<<K_transaction, None>>})),
    Dict(MkDict({<<K_transaction, Str(<<"n","o">>)>>})),
    Dict(MkDict({<<K_transaction, Dict(EmptyDict)>>})),
    Answer(None),
    List(<< >>) } \cup {Answer(l) : l \in L}

\* What the transport hands back: the request fails, the body is no JSON,
\* or the body is the JSON text of a value.
Wire(L) ==
  { [kind |-> "network_error", value |-> None], [kind |-> "not_json", value |-> None] }
  \cup {[kind |-> "json", value |-> v] : v \in Responses(L)}

\* the few leads of the runs that repeat the cell
RerunLeads ==
  { LeadOf(Dict(MkDict({<<K_first, Str(<<"J","O","H","N">>)>>})), Unset, Unset),
    LeadOf(Unset, Dict(MkDict({<<K_age, Dict(MkDict({<<K_years, IntV(45)>>}))>>})), Unset),
    LeadOf(Unset, Unset, List(<<ScoreRecord(Str(N_riskA), Str(<<"2","2","2">>), Unset)>>)),
    LeadOf(Unset, Unset, List(<<ScoreRecord(Str(N_riskA), Str(<<"2","2","x">>), Unset)>>)),
    LeadOf(Dict(MkDict({<<K_email, Str(<<"A","@","b",".","C">>)>>})), Unset,
           List(<<ScoreRecord(Str(K_first), Str(<<"5","2","0">>), Unset)>>)) }

----------------------------------------------------------------------------
(* The notebook.                                                           *)

Init ==
  /\ pc = "start"
  /\ requests_sent = 0
  /\ response = [kind |-> "none", value |-> None]
  /\ response_json = Unset
  /\ fetched = Unset
  /\ lead = Unset
  /\ result = Unset
  /\ processed_lead = Unset
  /\ personal_output = EmptyDict
  /\ demo_output = EmptyDict
  /\ scores_output = EmptyDict
  /\ calls = 0
  /\ runs = 1
  /\ history = EmptyDict
  /\ nb_pc = "create"
  /\ fg_status = "none"
  /\ status = Unset
  /\ polls = 0
  /\ printed = << >>
  /\ reads = << >>
  /\ wait_result = Unset
  /\ ingested = FALSE
  /\ store_objects = 0
  /\ objects_in_bucket = Unset
  /\ offline_store_contents = Unset
  /\ offline_waits = 0
  /\ query_state = "none"
  /\ training_status = "none"
  /\ endpoint_status = "none"
  /\ events = << >>

\* query_transunion, whole: one POST, json.loads of the body, the lookup
query_transunion(wire) ==
  CASE wire.kind = "network_error" -> Raise("ConnectionError")
    [] wire.kind = "not_json" -> Raise("JSONDecodeError")
    [] OTHER -> TransactionOutput(wire.value)

\* Mutant of PostsSent: a request that fails is sent once more.
PostsSentRetry(wire) == IF wire.kind = "network_error" THEN 2 ELSE 1

\* the requests.post calls of one call of query_transunion: the one of
\* line 44, in no loop and no try
PostsSent(wire) == 1

\* lead = query_transunion({'phone': ...}), with an answer drawn from L
QueryTransunion(L) ==
  /\ pc = "start"
  /\ \E wire \in Wire(L) :
       LET r == query_transunion(wire)
       IN /\ requests_sent' = requests_sent + PostsSent(wire)
          /\ response' = wire
          /\ response_json' = IF wire.kind = "json" THEN wire.value ELSE Unset
          /\ fetched' = r
          /\ lead' = IF r.k = "return" THEN r.v ELSE lead
          /\ pc' = IF r.k = "return" THEN "fetched" ELSE "fetch_failed"
  /\ calls' = 0
  /\ UNCHANGED <<result, processed_lead, personal_output, demo_output,
                 scores_output, runs, history>>
  /\ UNCHANGED <<fsvars, nbvars>>

\* Mutant of LeadAfterCall: demo_output is the `demo` section itself
\* (demo_output = demo), so the writes of the call land in the input.
LeadAfterCallAliased(json_lead, demo_out) ==
  IF json_lead.t = "dict" /\ Truthy(Get(json_lead.d, Str(K_demo)))
  THEN Dict(Put(json_lead.d, Str(K_demo), Dict(demo_out)))
  ELSE json_lead

\* The object passed as json_lead, as the call leaves it: the function
\* reads it (.get, .keys, indexing) and writes only to the three mappings
\* it creates itself.
LeadAfterCall(json_lead, demo_out) == json_lead

\* processed_lead = process_tu_lead(lead)
ProcessTuLead ==
  /\ \/ pc = "fetched"
     \/ pc \in {"done", "process_failed"} /\ calls < MaxCalls
  /\ LET r == process_tu_lead(lead)
     IN /\ result' = r.res
        /\ processed_lead' = IF r.res.k = "return" THEN r.res.v ELSE processed_lead
        /\ pc' = IF r.res.k = "return" THEN "done" ELSE "process_failed"
        /\ personal_output' = r.personal_output
        /\ demo_output' = r.demo_output
        /\ scores_output' = r.scores_output
        /\ history' = IF lead \in DOMAIN history THEN history
                      ELSE Put(history, lead, [res |-> r.res, run |-> runs])
        /\ lead' = LeadAfterCall(lead, r.demo_output)
  /\ calls' = calls + 1
  /\ UNCHANGED <<requests_sent, response, response_json, fetched, runs>>
  /\ UNCHANGED <<fsvars, nbvars>>

\* the cell is run again from its first line
RerunCell ==
  /\ pc \in {"done", "process_failed", "fetch_failed"}
  /\ runs < MaxRuns
  /\ pc' = "start"
  /\ runs' = runs + 1
  /\ UNCHANGED <<requests_sent, response, response_json, fetched, lead, result,
                 processed_lead, personal_output, demo_output, scores_output,
                 calls, history>>
  /\ UNCHANGED <<fsvars, nbvars>>

Next == QueryTransunion(Leads) \/ ProcessTuLead

Spec == Init /\ [][Next]_vars

NextRerun == QueryTransunion(RerunLeads) \/ ProcessTuLead \/ RerunCell

SpecRerun == Init /\ [][NextRerun]_vars

----------------------------------------------------------------------------
(* The Feature Store notebook: clinical_feature_group.create(...) and      *)
(* wait_for_feature_group_creation_complete.  The function is followed     *)
(* statement by statement, since the service moves the status of the       *)
(* group between any two of them.                                          *)

\* the values of FeatureGroupStatus
FeatureGroupStatuses ==
  {"Creating", "Created", "CreateFailed", "Deleting", "DeleteFailed"}

\* what the cell prints
MsgWaiting == "Waiting for Feature Group Creation"
MsgCreated == "FeatureGroup successfully created."

\* clinical_feature_group.create(...): the service starts creating the group
CreateFeatureGroup ==
  /\ nb_pc = "create"
  /\ fg_status' = "Creating"
  /\ nb_pc' = "describe"
  /\ UNCHANGED <<status, polls, printed, reads, wait_result>>
  /\ UNCHANGED <<tuvars, nbvars>>

\* status = feature_group.describe().get("FeatureGroupStatus"), before the
\* loop and at the end of its body
Describe ==
  /\ nb_pc = "describe"
  /\ status' = fg_status
  /\ reads' = Append(reads, fg_status)
  /\ nb_pc' = "test"
  /\ UNCHANGED <<fg_status, polls, printed, wait_result>>
  /\ UNCHANGED <<tuvars, nbvars>>

\* Mutant of StillCreating: the loop also goes on while the group is deleted.
StillCreatingOrDeleting(s) == s \in {"Creating", "Deleting"}

\* while status == "Creating"
StillCreating(s) == s = "Creating"

\* the test of the while, and the print that opens the body
WhileTest ==
  /\ nb_pc = "test"
  /\ IF StillCreating(status)
     THEN /\ polls < MaxPolls
          /\ printed' = Append(printed, MsgWaiting)
          /\ nb_pc' = "sleep"
     ELSE /\ nb_pc' = "check"
          /\ UNCHANGED printed
  /\ UNCHANGED <<fg_status, status, polls, reads, wait_result>>
  /\ UNCHANGED <<tuvars, nbvars>>

\* time.sleep(5)
Sleep ==
  /\ nb_pc = "sleep"
  /\ polls' = polls + 1
  /\ nb_pc' = "describe"
  /\ UNCHANGED <<fg_status, status, printed, reads, wait_result>>
  /\ UNCHANGED <<tuvars, nbvars>>

\* Mutant of CreationFailed: only the status "CreateFailed" is a failure.
CreationFailedOnlyCreateFailed(s) == s = "CreateFailed"

\* if status != "Created"
CreationFailed(s) == s # "Created"

\* the if after the loop: raise RuntimeError, or print and return
CheckCreated ==
  /\ nb_pc = "check"
  /\ IF CreationFailed(status)
     THEN /\ wait_result' = Raise("RuntimeError")
          /\ nb_pc' = "raised"
          /\ UNCHANGED printed
     ELSE /\ printed' = Append(printed, MsgCreated)
          /\ wait_result' = Return(None)
          /\ nb_pc' = "returned"
  /\ UNCHANGED <<fg_status, status, polls, reads>>
  /\ UNCHANGED <<tuvars, nbvars>>

\* The service, meanwhile: the creation ends, well or not; a group that
\* exists is deleted from elsewhere (the console, another session), and
\* that deletion can fail.
ServiceStep ==
  /\ \/ fg_status = "Creating" /\ fg_status' \in {"Created", "CreateFailed"}
     \/ fg_status = "Created" /\ fg_status' = "Deleting"
     \/ fg_status = "Deleting" /\ fg_status' = "DeleteFailed"
  /\ UNCHANGED <<nb_pc, status, polls, printed, reads, wait_result>>
  /\ UNCHANGED <<tuvars, nbvars>>

NextFS ==
  \/ CreateFeatureGroup \/ Describe \/ WhileTest \/ Sleep \/ CheckCreated
  \/ ServiceStep

SpecFS == Init /\ [][NextFS]_vars

----------------------------------------------------------------------------
(* The rest of the Feature Store notebook, cell by cell: ingest, the wait  *)
(* for the offline store, the Athena query, training, deployment, the      *)
(* prediction and the clean-up.  A call that waits for a service (ingest,  *)
(* wait, fit, deploy) is taken when the service has ended.                 *)

\* clinical_feature_group.ingest(data_frame=clinical, max_workers=3, wait=True):
\* returns once every record is put; PutRecord is refused for a group that is
\* not (or no longer) "Created"
Ingest ==
  /\ nb_pc = "returned"
  /\ ingested' = (fg_status = "Created")
  /\ events' = IF fg_status = "Created" THEN Append(events, "ingest") ELSE events
  /\ nb_pc' = IF fg_status = "Created" THEN "offline_start" ELSE "failed"
  /\ UNCHANGED <<fg_status, printed, store_objects, objects_in_bucket,
                 offline_store_contents, offline_waits, query_state, training_status, endpoint_status>>
  /\ UNCHANGED <<status, polls, reads, wait_result>>
  /\ UNCHANGED tuvars

\* the lines of the cell before the loop, down to offline_store_contents = None
OfflineStart ==
  /\ nb_pc = "offline_start"
  /\ offline_store_contents' = None
  /\ nb_pc' = "offline_test"
  /\ UNCHANGED <<fg_status, printed, ingested, store_objects, objects_in_bucket,
                 offline_waits, query_state, training_status, endpoint_status, events>>
  /\ UNCHANGED <<status, polls, reads, wait_result>>
  /\ UNCHANGED tuvars

\* Mutant of OfflineLoopGoesOn: the loop gives up after two sleeps.
OfflineLoopTwoAttempts(contents, waits) == contents = None /\ waits < 2

\* while (offline_store_contents is None): no count, no clock
OfflineLoopGoesOn(contents, waits) == contents = None

\* what the cell prints when the loop is left
MsgAvailable == "Data available."

\* the test of the while; when it fails, print('Data available.')
OfflineWhile ==
  /\ nb_pc = "offline_test"
  /\ nb_pc' = IF OfflineLoopGoesOn(offline_store_contents, offline_waits)
       THEN "offline_list" ELSE "athena_run"
  /\ printed' = IF OfflineLoopGoesOn(offline_store_contents, offline_waits)
       THEN printed ELSE Append(printed, MsgAvailable)
  /\ events' = IF OfflineLoopGoesOn(offline_store_contents, offline_waits)
       THEN events ELSE Append(events, "data_available")
  /\ UNCHANGED <<fg_status, ingested, store_objects, objects_in_bucket,
                 offline_store_contents, offline_waits, query_state, training_status, endpoint_status>>
  /\ UNCHANGED <<status, polls, reads, wait_result>>
  /\ UNCHANGED tuvars

\* What s3_client.list_objects answers for a store of n objects: the
\* objects under the key Contents; for none, an answer without that key (or
\* with an empty list, which the code provides for as well).
Listings(n) ==
  IF n = 0
  THEN {[has_contents |-> FALSE, len |-> 0], [has_contents |-> TRUE, len |-> 0]}
  ELSE {[has_contents |-> TRUE, len |-> n]}

\* Mutant of HasObjects: the length of the list is not looked at.
HasContentsKey(listing) == listing.has_contents

\* 'Contents' in objects_in_bucket and len(objects_in_bucket['Contents']) >= 1
HasObjects(listing) == listing.has_contents /\ listing.len >= 1

\* the body of the loop, down to the print of its else
OfflineList ==
  /\ nb_pc = "offline_list"
  /\ \E listing \in Listings(store_objects) :
       /\ objects_in_bucket' = listing
       /\ IF HasObjects(listing)
          THEN /\ offline_store_contents' = [t |-> "contents", len |-> listing.len]
               /\ nb_pc' = "offline_test"
          ELSE /\ nb_pc' = "offline_sleep"
               /\ UNCHANGED offline_store_contents
  /\ UNCHANGED <<fg_status, printed, ingested, store_objects, offline_waits,
                 query_state, training_status, endpoint_status, events>>
  /\ UNCHANGED <<status, polls, reads, wait_result>>
  /\ UNCHANGED tuvars

\* sleep(60)
OfflineSleep ==
  /\ nb_pc = "offline_sleep"
  /\ offline_waits' = IF offline_waits < MaxWaits THEN offline_waits + 1 ELSE offline_waits
  /\ nb_pc' = "offline_test"
  /\ UNCHANGED <<fg_status, printed, ingested, store_objects, objects_in_bucket,
                 offline_store_contents, query_state, training_status, endpoint_status, events>>
  /\ UNCHANGED <<status, polls, reads, wait_result>>
  /\ UNCHANGED tuvars

\* clinical_query = clinical_feature_group.athena_query(); clinical_query.run(...)
AthenaRun ==
  /\ nb_pc = "athena_run"
  /\ query_state' = "RUNNING"
  /\ events' = Append(events, "query_run")
  /\ nb_pc' = "athena_wait"
  /\ UNCHANGED <<fg_status, printed, ingested, store_objects,
                 objects_in_bucket, offline_store_contents, offline_waits, training_status, endpoint_status>>
  /\ UNCHANGED <<status, polls, reads, wait_result>>
  /\ UNCHANGED tuvars

\* clinical_query.wait(): returns when the query is no longer running
AthenaWait ==
  /\ nb_pc = "athena_wait"
  /\ query_state \in {"SUCCEEDED", "FAILED"}
  /\ nb_pc' = "as_dataframe"
  /\ UNCHANGED <<fg_status, printed, ingested, store_objects, objects_in_bucket,
                 offline_store_contents, offline_waits, query_state, training_status, endpoint_status, events>>
  /\ UNCHANGED <<status, polls, reads, wait_result>>
  /\ UNCHANGED tuvars

\* dataset = clinical_query.as_dataframe(): raises unless the query succeeded
AsDataframe ==
  /\ nb_pc = "as_dataframe"
  /\ events' = IF query_state = "SUCCEEDED" THEN Append(events, "query_finished") ELSE events
  /\ nb_pc' = IF query_state = "SUCCEEDED" THEN "build_dataset" ELSE "failed"
  /\ UNCHANGED <<fg_status, printed, ingested, store_objects, objects_in_bucket,
                 offline_store_contents, offline_waits, query_state, training_status, endpoint_status>>
  /\ UNCHANGED <<status, polls, reads, wait_result>>
  /\ UNCHANGED tuvars

\* id_for_test, the columns of the dataset, dataset.csv and its upload, the
\* Estimator and its inputs
BuildDataset ==
  /\ nb_pc = "build_dataset"
  /\ events' = Append(events, "dataset_built")
  /\ nb_pc' = "fit"
  /\ UNCHANGED <<fg_status, printed, ingested, store_objects, objects_in_bucket,
                 offline_store_contents, offline_waits, query_state, training_status, endpoint_status>>
  /\ UNCHANGED <<status, polls, reads, wait_result>>
  /\ UNCHANGED tuvars

\* training_model.fit(inputs=data_channels, logs=True): the job is started ...
FitStart ==
  /\ nb_pc = "fit"
  /\ training_status' = "InProgress"
  /\ events' = Append(events, "fit_started")
  /\ nb_pc' = "fit_wait"
  /\ UNCHANGED <<fg_status, printed, ingested, store_objects,
                 objects_in_bucket, offline_store_contents, offline_waits, query_state, endpoint_status>>
  /\ UNCHANGED <<status, polls, reads, wait_result>>
  /\ UNCHANGED tuvars

\* ... and fit returns when the job has completed, or raises when it failed
FitEnd ==
  /\ nb_pc = "fit_wait"
  /\ training_status \in {"Completed", "Failed"}
  /\ events' = IF training_status = "Completed" THEN Append(events, "fit_finished") ELSE events
  /\ nb_pc' = IF training_status = "Completed" THEN "deploy" ELSE "failed"
  /\ UNCHANGED <<fg_status, printed, ingested, store_objects, objects_in_bucket,
                 offline_store_contents, offline_waits, query_state, training_status, endpoint_status>>
  /\ UNCHANGED <<status, polls, reads, wait_result>>
  /\ UNCHANGED tuvars

\* predictor = training_model.deploy(...): the endpoint is started ...
DeployStart ==
  /\ nb_pc = "deploy"
  /\ endpoint_status' = "Creating"
  /\ events' = Append(events, "deploy_started")
  /\ nb_pc' = "deploy_wait"
  /\ UNCHANGED <<fg_status, printed, ingested, store_objects,
                 objects_in_bucket, offline_store_contents, offline_waits, query_state, training_status>>
  /\ UNCHANGED <<status, polls, reads, wait_result>>
  /\ UNCHANGED tuvars

\* ... and deploy returns when the endpoint is in service, or raises
DeployEnd ==
  /\ nb_pc = "deploy_wait"
  /\ endpoint_status \in {"InService", "Failed"}
  /\ events' = IF endpoint_status = "InService" THEN Append(events, "deployed") ELSE events
  /\ nb_pc' = IF endpoint_status = "InService" THEN "predict" ELSE "failed"
  /\ UNCHANGED <<fg_status, printed, ingested, store_objects, objects_in_bucket,
                 offline_store_contents, offline_waits, query_state, training_status, endpoint_status>>
  /\ UNCHANGED <<status, polls, reads, wait_result>>
  /\ UNCHANGED tuvars

\* get_record, the inference request, predictor.predict(...), print (prediction)
Predict ==
  /\ nb_pc = "predict"
  /\ events' = Append(events, "predict")
  /\ nb_pc' = "delete_endpoint"
  /\ UNCHANGED <<fg_status, printed, ingested, store_objects, objects_in_bucket,
                 offline_store_contents, offline_waits, query_state, training_status, endpoint_status>>
  /\ UNCHANGED <<status, polls, reads, wait_result>>
  /\ UNCHANGED tuvars

\* predictor.delete_endpoint()
DeleteEndpoint ==
  /\ nb_pc = "delete_endpoint"
  /\ endpoint_status' = "Deleted"
  /\ events' = Append(events, "delete_endpoint")
  /\ nb_pc' = "delete_group"
  /\ UNCHANGED <<fg_status, printed, ingested, store_objects,
                 objects_in_bucket, offline_store_contents, offline_waits, query_state, training_status>>
  /\ UNCHANGED <<status, polls, reads, wait_result>>
  /\ UNCHANGED tuvars

\* clinical_feature_group.delete(): refused for a group that is not "Created"
DeleteFeatureGroup ==
  /\ nb_pc = "delete_group"
  /\ fg_status' = IF fg_status = "Created" THEN "Deleting" ELSE fg_status
  /\ events' = IF fg_status = "Created" THEN Append(events, "delete_group") ELSE events
  /\ nb_pc' = IF fg_status = "Created" THEN "end" ELSE "failed"
  /\ UNCHANGED <<printed, ingested, store_objects, objects_in_bucket,
                 offline_store_contents, offline_waits, query_state, training_status, endpoint_status>>
  /\ UNCHANGED <<status, polls, reads, wait_result>>
  /\ UNCHANGED tuvars

\* The services, meanwhile: the offline store receives the records put (some
\* minutes after the ingest, and object by object); the query, the training
\* job and the endpoint end well or not.
BackendStep ==
  /\ \/ /\ ingested /\ store_objects < MaxObjects
        /\ store_objects' = store_objects + 1
        /\ UNCHANGED <<query_state, training_status, endpoint_status>>
     \/ /\ query_state = "RUNNING"
        /\ query_state' \in {"SUCCEEDED", "FAILED"}
        /\ UNCHANGED <<store_objects, training_status, endpoint_status>>
     \/ /\ training_status = "InProgress"
        /\ training_status' \in {"Completed", "Failed"}
        /\ UNCHANGED <<store_objects, query_state, endpoint_status>>
     \/ /\ endpoint_status = "Creating"
        /\ endpoint_status' \in {"InService", "Failed"}
        /\ UNCHANGED <<store_objects, query_state, training_status>>
  /\ UNCHANGED <<ingested, objects_in_bucket, offline_store_contents,
                 offline_waits, events>>
  /\ UNCHANGED <<fsvars, tuvars>>

\* the notebook, run from the cell that creates the feature group to the
\* last one; a cell that raises ends the run
NextNotebook ==
  \/ NextFS
  \/ Ingest \/ OfflineStart \/ OfflineWhile \/ OfflineList \/ OfflineSleep
  \/ AthenaRun \/ AthenaWait \/ AsDataframe \/ BuildDataset
  \/ FitStart \/ FitEnd \/ DeployStart \/ DeployEnd
  \/ Predict \/ DeleteEndpoint \/ DeleteFeatureGroup
  \/ BackendStep

SpecNotebook == Init /\ [][NextNotebook]_vars

\* The offline-store loop keeps running: the interpreter goes on to the next
\* statement, a listing is answered, sleep(60) returns.
SpecNotebookFair ==
  /\ SpecNotebook
  /\ WF_vars(OfflineWhile) /\ WF_vars(OfflineList) /\ WF_vars(OfflineSleep)

----------------------------------------------------------------------------
(* What the claims speak of.                                               *)

\* process_tu_lead has been called on the current `lead`
Called == pc \in {"done", "process_failed"}
\* ... and has returned a mapping
Returned == pc = "done" /\ result.k = "return" /\ result.v.t = "dict"
\* the mapping returned
Output == result.v.d

IsRecord == lead.t = "dict"
\* the sections of the current lead (None when missing)
DataOf == Get(lead.d, Str(K_data))
DemoOf == Get(lead.d, Str(K_demo))
ScoreOf == Get(lead.d, Str(K_score))
\* the lead record has a `demo` section
HasDemo == IsRecord /\ Str(K_demo) \in DOMAIN lead.d /\ DemoOf.t = "dict"
\* the lead record has a `data` section and nothing else
OnlyData == IsRecord /\ DOMAIN lead.d = {Str(K_data)} /\ DataOf.t = "dict"
\* the entries of `score`, in order (none when the section is missing)
Entries == IF IsRecord /\ ScoreOf.t = "list" THEN ScoreOf.l ELSE << >>
NameAt(i) == Get(Entries[i].d, Str(K_name))
ScoreAt(i) == Get(Entries[i].d, Str(K_score))
\* entry i is the last one of its name
LastOfName(i) == \A j \in (i + 1)..Len(Entries) : NameAt(j) # NameAt(i)
ScoreNames == {NameAt(i) : i \in 1..Len(Entries)}

PersonalKeys == {Str(personal_variables[i]) : i \in 1..Len(personal_variables)}
DemoPairs == {demo_variables[i] : i \in 1..Len(demo_variables)}
KeyOfPair(pair) == Str(pair[1] \o <<"_">> \o pair[2])
CompositeKeys == {KeyOfPair(pair) : pair \in DemoPairs}

\* The integer a decimal numeral denotes, by the weight of each position
\* (a reading of the numeral that does not go through int()).
DigitOf ==
  [c \in {"0","1","2","3","4","5","6","7","8","9"} |->
     CASE c = "0" -> 0 [] c = "1" -> 1 [] c = "2" -> 2 [] c = "3" -> 3
       [] c = "4" -> 4 [] c = "5" -> 5 [] c = "6" -> 6 [] c = "7" -> 7
       [] c = "8" -> 8 [] OTHER -> 9]
RECURSIVE Pow10(_)
Pow10(n) == IF n = 0 THEN 1 ELSE 10 * Pow10(n - 1)
RECURSIVE WeightedSum(_, _)
WeightedSum(s, i) ==
  IF i > Len(s) THEN 0
  ELSE DigitOf[s[i]] * Pow10(Len(s) - i) + WeightedSum(s, i + 1)
\* s is an optional sign and then one digit or more
Decimal(s) ==
  LET body == IF Len(s) > 0 /\ s[1] \in {"+", "-"} THEN Tail(s) ELSE s
  IN Len(body) > 0 /\ \A i \in 1..Len(body) : body[i] \in DOMAIN DigitOf
DecimalOf(s) ==
  IF s[1] = "-" THEN 0 - WeightedSum(Tail(s), 1)
  ELSE IF s[1] = "+" THEN WeightedSum(Tail(s), 1)
  ELSE WeightedSum(s, 1)

----------------------------------------------------------------------------
(* C1: for every lead record the Normalizer returns a mapping for, every   *)
(* entry of `score` whose name no later entry carries is written as        *)
(* name -> the integer its score string denotes (an integer value, not the *)
(* string).                                                                *)
C1_ScoresAsIntegers ==
  Returned =>
    \A i \in 1..Len(Entries) :
      (LastOfName(i) /\ ScoreAt(i).t = "str") =>
        /\ NameAt(i) \in DOMAIN Output
        /\ Output[NameAt(i)].t = "int"
        /\ Output[NameAt(i)] = IntV(DecimalOf(ScoreAt(i).s))

\* the spec's example: a score entry riskA / "222" gives riskA: 222
C1_Witness ==
  /\ Returned
  /\ \E i \in 1..Len(Entries) :
       /\ NameAt(i) = Str(N_riskA) /\ ScoreAt(i) = Str(<<"2","2","2">>)
       /\ LastOfName(i)
  /\ Output[Str(N_riskA)] = IntV(222)

(* C2, as stated: for a lead record with a `demo` section and each of the  *)
(* ten pairs, the composite key is in the output with the value            *)
(* demo[field][qualifier] when field is a key of `demo`, and is not in the *)
(* output when it is not (unless a score entry has that name).             *)
C2_AsStated ==
  (Returned /\ HasDemo) =>
    \A pair \in DemoPairs :
      IF Str(pair[1]) \in DOMAIN DemoOf.d
      THEN /\ KeyOfPair(pair) \in DOMAIN Output
           /\ Output[KeyOfPair(pair)] = Get(DemoOf.d[Str(pair[1])].d, Str(pair[2]))
      ELSE KeyOfPair(pair) \in DOMAIN Output => KeyOfPair(pair) \in ScoreNames

(* C2, amended: as stated, but the value under the composite key is the    *)
(* demographic one only if no score entry has that name (in both halves    *)
(* the score entry takes the key).                                         *)
C2_DemoCompositeKeys ==
  (Returned /\ HasDemo) =>
    \A pair \in DemoPairs :
      IF Str(pair[1]) \in DOMAIN DemoOf.d
      THEN /\ KeyOfPair(pair) \in DOMAIN Output
           /\ KeyOfPair(pair) \notin ScoreNames =>
                Output[KeyOfPair(pair)] = Get(DemoOf.d[Str(pair[1])].d, Str(pair[2]))
      ELSE KeyOfPair(pair) \in DOMAIN Output => KeyOfPair(pair) \in ScoreNames

\* the spec's example, {"age": {"years": 45}} gives age_years: 45, in a
\* `demo` that has no affiliation field
C2_Witness ==
  /\ Returned /\ HasDemo
  /\ Str(K_age) \in DOMAIN DemoOf.d
  /\ Get(DemoOf.d[Str(K_age)].d, Str(K_years)) = IntV(45)
  /\ Str(K_affiliation) \notin DOMAIN DemoOf.d
  /\ Output[Str(<<"a","g","e","_","y","e","a","r","s">>)] = IntV(45)
  /\ Str(<<"a","f","f","i","l","i","a","t","i","o","n","_","l","i","b","e","r","a","l">>)
       \notin DOMAIN Output

(* C3: for a lead record that holds a `data` section and nothing else,     *)
(* every personal field that is a non-empty string is in the output under  *)
(* its own name, lower-cased, and the output has no composite key and no   *)
(* key other than the four personal names.                                 *)
C3_DataOnly ==
  (Returned /\ OnlyData) =>
    /\ \A k \in PersonalKeys :
         (k \in DOMAIN DataOf.d /\ DataOf.d[k].t = "str" /\ Len(DataOf.d[k].s) > 0) =>
           /\ k \in DOMAIN Output
           /\ Output[k] = Str([i \in 1..Len(DataOf.d[k].s) |-> LowerChar(DataOf.d[k].s[i])])
    /\ DOMAIN Output \cap CompositeKeys = {}
    /\ DOMAIN Output \subseteq PersonalKeys

\* the spec's example: first "JOHN" gives first: "john"
C3_Witness ==
  /\ Returned /\ OnlyData
  /\ Get(DataOf.d, Str(K_first)) = Str(<<"J","O","H","N">>)
  /\ Output[Str(K_first)] = Str(<<"j","o","h","n">>)

(* C4: when the input is None the Normalizer returns the empty mapping and *)
(* does not raise.                                                         *)
C4_AbsentGivesEmpty ==
  (Called /\ lead = None) => result = Return(Dict(EmptyDict))

C4_Witness ==
  /\ pc = "done" /\ lead = None
  /\ result.k = "return" /\ DOMAIN result.v.d = {}

\* the Fetcher has been called and has parsed a response
Fetched == pc \in {"fetched", "fetch_failed"} /\ response_json # Unset
HasTransaction ==
  response_json.t = "dict" /\ Str(K_transaction) \in DOMAIN response_json.d
TransactionOf == response_json.d[Str(K_transaction)]
HasOutputPath ==
  HasTransaction /\ TransactionOf.t = "dict" /\ Str(K_output) \in DOMAIN TransactionOf.d

(* C5, as stated: for every response parsed to a JSON object, the Fetcher  *)
(* returns response['transaction']['output'] when `transaction` exists and *)
(* `output` exists under it, and returns None without raising in every     *)
(* other case.                                                             *)
C5_AsStated ==
  (Fetched /\ response_json.t = "dict") =>
    IF HasOutputPath THEN fetched = Return(TransactionOf.d[Str(K_output)])
    ELSE fetched = Return(None)

(* C5, amended: for every response parsed to a JSON object, the Fetcher    *)
(* returns response['transaction']['output'] when `transaction` exists and *)
(* `output` exists under it; it returns None without raising when          *)
(* `transaction` is missing, or is an object without `output`; and it      *)
(* raises AttributeError when `transaction` is there but is no object.     *)
C5_TransactionOutput ==
  (Fetched /\ response_json.t = "dict") =>
    IF HasOutputPath THEN fetched = Return(TransactionOf.d[Str(K_output)])
    ELSE IF HasTransaction /\ TransactionOf.t # "dict"
    THEN fetched = Raise("AttributeError")
    ELSE fetched = Return(None)

\* a `transaction` that is an object without `output`: None, no exception
C5_Witness ==
  /\ pc = "fetched" /\ response_json # Unset
  /\ HasTransaction /\ TransactionOf = Dict(EmptyDict)
  /\ fetched = Return(None) /\ lead = None

(* C6: when two or more entries of `score` have the same name, the output  *)
(* maps that name to the integer score of the last of them.                *)
C6_LastWriteWins ==
  Returned =>
    \A i \in 1..Len(Entries) : \A j \in (i + 1)..Len(Entries) :
      (NameAt(i) = NameAt(j) /\ LastOfName(j) /\ ScoreAt(j).t = "str") =>
        Output[NameAt(j)] = IntV(DecimalOf(ScoreAt(j).s))

\* riskA: "222" and then riskA: "520" gives riskA: 520
C6_Witness ==
  /\ Returned /\ Len(Entries) = 2
  /\ NameAt(1) = Str(N_riskA) /\ NameAt(2) = Str(N_riskA)
  /\ ScoreAt(1) = Str(<<"2","2","2">>) /\ ScoreAt(2) = Str(<<"5","2","0">>)
  /\ Output[Str(N_riskA)] = IntV(520)

(* C7: a score entry wins every collision of keys in the last merge: every *)
(* key of the score mapping is in the output with the score's integer, and *)
(* when the name of the (last such) entry is a personal field name or a    *)
(* composite key, the personal or demographic value is not in the output.  *)
C7_ScoresWinCollisions ==
  Returned =>
    /\ \A k \in DOMAIN scores_output : k \in DOMAIN Output /\ Output[k] = scores_output[k]
    /\ \A i \in 1..Len(Entries) :
         (LastOfName(i) /\ NameAt(i) \in PersonalKeys \cup CompositeKeys
            /\ ScoreAt(i).t = "str") =>
           Output[NameAt(i)] = IntV(DecimalOf(ScoreAt(i).s))

\* data.first "JOHN" and a score named first: the output has first: 520
C7_Witness ==
  /\ Returned
  /\ Str(K_first) \in DOMAIN personal_output
  /\ personal_output[Str(K_first)] = Str(<<"j","o","h","n">>)
  /\ \E i \in 1..Len(Entries) : NameAt(i) = Str(K_first)
  /\ Output[Str(K_first)] = IntV(520)

(* C8.  The values of the lead are of the kinds the data model gives them: *)
(* a personal field is a string, a demographic field a mapping, a score a  *)
(* decimal numeral; anything may be missing.                               *)
WellTyped ==
  /\ IsRecord
  /\ DataOf.t \in {"none", "dict"} /\ DemoOf.t \in {"none", "dict"}
  /\ ScoreOf.t \in {"none", "list"}
  /\ DataOf.t = "dict" =>
       \A k \in PersonalKeys : Get(DataOf.d, k).t \in {"none", "str"}
  /\ DemoOf.t = "dict" =>
       \A pair \in DemoPairs : Get(DemoOf.d, Str(pair[1])).t \in {"none", "dict"}
  /\ \A i \in 1..Len(Entries) :
       /\ NameAt(i).t \in {"none", "str"}
       /\ ScoreAt(i).t = "none" \/ (ScoreAt(i).t = "str" /\ Decimal(ScoreAt(i).s))

\* a personal field that `data` (there, not empty) does not hold
MissingPersonal(k) == Truthy(DataOf) /\ k \notin DOMAIN DataOf.d
\* a qualifier missing under a demographic field that `demo` holds
MissingQualifier(pair) ==
  /\ Truthy(DemoOf) /\ Str(pair[1]) \in DOMAIN DemoOf.d
  /\ Str(pair[2]) \notin DOMAIN DemoOf.d[Str(pair[1])].d

(* C8, as stated: whatever is missing (a section, a personal field, a      *)
(* qualifier, the name or the score of an entry), the Normalizer completes *)
(* without raising and writes no key for the missing part.                 *)
C8_AsStated ==
  (Called /\ WellTyped) =>
    /\ result.k = "return"
    /\ \A k \in PersonalKeys :
         (MissingPersonal(k) /\ k \notin ScoreNames) => k \notin DOMAIN Output
    /\ \A pair \in DemoPairs :
         (MissingQualifier(pair) /\ KeyOfPair(pair) \notin ScoreNames) =>
           KeyOfPair(pair) \notin DOMAIN Output
    /\ None \notin DOMAIN Output

(* C8, amended: a missing (or empty) `data`, `demo` or `score` section     *)
(* contributes no key and raises nothing.  A personal field missing from a *)
(* `data` that is there is written with the value None; a qualifier        *)
(* missing under a demographic field that is there is written, as the      *)
(* composite key, with the value None; an entry of `score` without a name  *)
(* is written under the key None (each unless a score entry takes the      *)
(* key); and an entry without a score makes the Normalizer raise           *)
(* TypeError.                                                              *)
C8_MissingParts ==
  (Called /\ WellTyped) =>
    IF \E i \in 1..Len(Entries) : ScoreAt(i) = None
    THEN result = Raise("TypeError")
    ELSE
      /\ result.k = "return"
      /\ ~Truthy(DataOf) =>
           \A k \in PersonalKeys : k \in DOMAIN Output => k \in ScoreNames
      /\ ~Truthy(DemoOf) =>
           \A k \in CompositeKeys : k \in DOMAIN Output => k \in ScoreNames
      /\ ~Truthy(ScoreOf) => DOMAIN Output \subseteq PersonalKeys \cup CompositeKeys
      /\ \A k \in PersonalKeys :
           MissingPersonal(k) =>
             k \in DOMAIN Output /\ (k \notin ScoreNames => Output[k] = None)
      /\ \A pair \in DemoPairs :
           MissingQualifier(pair) =>
             /\ KeyOfPair(pair) \in DOMAIN Output
             /\ KeyOfPair(pair) \notin ScoreNames => Output[KeyOfPair(pair)] = None
      /\ \A i \in 1..Len(Entries) :
           (NameAt(i) = None /\ LastOfName(i)) =>
             None \in DOMAIN Output /\ Output[None] = IntV(DecimalOf(ScoreAt(i).s))

\* a lead with no `demo` and no `score`, and a `data` without `email`: the
\* call returns, with nothing but the four personal keys, email: None
C8_Witness ==
  /\ Returned /\ WellTyped
  /\ Str(K_demo) \notin DOMAIN lead.d /\ Str(K_score) \notin DOMAIN lead.d
  /\ MissingPersonal(Str(K_email))
  /\ DOMAIN Output = PersonalKeys
  /\ Output[Str(K_email)] = None

Unconvertible(i) ==
  ScoreAt(i).t # "int" /\ ~(ScoreAt(i).t = "str" /\ Decimal(ScoreAt(i).s))
SectionsBeforeScoreWellFormed ==
  /\ DataOf.t = "dict" =>
       \A k \in PersonalKeys : Get(DataOf.d, k).t \in {"none", "str"}
  /\ DemoOf.t = "dict" =>
       \A pair \in DemoPairs : Get(DemoOf.d, Str(pair[1])).t \in {"none", "dict"}

(* C10: when an entry of `score` has a score that does not convert to an   *)
(* integer, the call raises and returns no mapping (processed_lead is not  *)
(* assigned); the exception is the one of the conversion (ValueError,      *)
(* TypeError) whenever the sections before `score` are well formed.        *)
C10_ConversionFaultPropagates ==
  (Called /\ \E i \in 1..Len(Entries) : Unconvertible(i)) =>
    /\ result.k = "raise"
    /\ processed_lead = Unset
    /\ SectionsBeforeScoreWellFormed => result.exc \in {"ValueError", "TypeError"}

\* first: "JOHN", riskB: "-3" and then a score "22x": ValueError, and
\* neither first nor riskB reaches the caller
C10_Witness ==
  /\ pc = "process_failed" /\ result = Raise("ValueError")
  /\ Len(Entries) = 2 /\ ~Unconvertible(1) /\ Unconvertible(2)
  /\ Str(K_first) \in DOMAIN personal_output
  /\ Str(N_riskB) \in DOMAIN scores_output
  /\ processed_lead = Unset

(* C11: every call of the Fetcher sends exactly one POST; when the         *)
(* transport fails or the body is no JSON, the call ends with that         *)
(* exception passed to the caller: no second request, and no None          *)
(* returned in its place (`lead` is not assigned).                         *)
C11_OnePostNoRetry ==
  /\ requests_sent = (IF pc = "start" THEN runs - 1 ELSE runs)
  /\ (pc # "start" /\ response.kind = "network_error") =>
       (pc = "fetch_failed" /\ fetched = Raise("ConnectionError"))
  /\ (pc # "start" /\ response.kind = "not_json") =>
       (pc = "fetch_failed" /\ fetched = Raise("JSONDecodeError"))
  /\ (runs = 1 /\ pc = "fetch_failed") => lead = Unset

\* the second run of the cell meets a transport failure: two POSTs in all,
\* and the exception
C11_Witness ==
  /\ runs = 2 /\ pc = "fetch_failed"
  /\ response.kind = "network_error"
  /\ fetched.k = "raise"
  /\ requests_sent = 2

----------------------------------------------------------------------------
(* C12.  The printed example.                                              *)

\* the processed_lead the notebook printed
RecordedProcessedLead ==
  Dict(MkDict({
    <<<<"e","m","a","i","l">>, None>>,
    <<<<"p","h","o","n","e">>, Str(<<"3","1","2","4","7","8","4","8","9","2">>)>>,
    <<<<"f","i","r","s","t">>, Str(<<"j","a","w","h","a","r">>)>>,
    <<<<"l","a","s","t">>, Str(<<"m","o","h","a","m","m","e","d">>)>>,
    <<<<"e","b","u","r","e","a","u","-","s","c","o","r","e","-","m","a","r","k","e","t","-","2","0","1","8","0","1","2","2","0","5","0","8">>, IntV(222)>>,
    <<<<"e","b","u","r","e","a","u","-","s","c","o","r","e","-","m","a","r","k","e","t","-","2","0","1","8","0","5","1","7","0","5","0","6">>, IntV(520)>> }))

\* C12: for the lead record the notebook printed (phone "3124784892", first
\* "JAWHAR", last "MOHAMMED", no email, no demo, scores "222" and "520"),
\* process_tu_lead returns a mapping with phone "3124784892" and first
\* "jawhar", and that mapping is exactly the printed processed_lead.
C12_ExampleAsRecorded ==
  (Called /\ lead = ExampleLead) =>
     /\ Returned
     /\ Output[Str(K_phone)] = Str(<<"3","1","2","4","7","8","4","8","9","2">>)
     /\ Output[Str(K_first)] = Str(<<"j","a","w","h","a","r">>)
     /\ Output = RecordedProcessedLead.d
     /\ processed_lead = RecordedProcessedLead

C12_Witness ==
  /\ pc = "done" /\ lead = ExampleLead /\ fetched = Return(ExampleLead)
  /\ processed_lead = RecordedProcessedLead
  /\ Str(K_email) \in DOMAIN Output /\ Output[Str(K_email)] = None

----------------------------------------------------------------------------
(* C13 .. C15.  The personal fields.                                       *)

\* the `data` section is a mapping with at least one key
DataNonEmpty == IsRecord /\ DataOf.t = "dict" /\ Truthy(DataOf)
\* the value `data` holds for the personal field k (None when it holds none)
PersonalValue(k) == Get(DataOf.d, k)

(* C13, as stated: whenever the lead record has a `data` section, the      *)
(* output contains the four personal keys.                                 *)
C13_AsStated ==
  (Returned /\ IsRecord /\ Str(K_data) \in DOMAIN lead.d) =>
     PersonalKeys \subseteq DOMAIN Output

(* C13, amended: whenever the lead record has a `data` section that is not *)
(* empty, the returned mapping contains the four personal keys; a key no   *)
(* score entry is named after holds None when `data` does not contain the  *)
(* field, and a value of the field's kind when it does.  (An empty `data`  *)
(* contributes no key.)                                                    *)
C13_DataGivesFourKeys ==
  /\ (Returned /\ DataNonEmpty) =>
       \A k \in PersonalKeys :
         /\ k \in DOMAIN Output
         /\ k \notin ScoreNames =>
              IF k \in DOMAIN DataOf.d
              THEN Output[k].t = PersonalValue(k).t
              ELSE Output[k] = None
  /\ (Returned /\ IsRecord /\ DataOf = Dict(EmptyDict)) =>
       \A k \in PersonalKeys : k \in DOMAIN Output => k \in ScoreNames

\* `data` holds first and no email, beside a demo and a score section: the
\* mapping returned has email: None next to the composite and score keys
C13_Witness ==
  /\ Returned /\ DataNonEmpty
  /\ Str(K_first) \in DOMAIN DataOf.d /\ Str(K_email) \notin DOMAIN DataOf.d
  /\ HasDemo /\ Len(Entries) > 0
  /\ Output[Str(K_email)] = None /\ Output[Str(K_last)] = None
  /\ Output[Str(K_first)] = Str(<<"j","o","h","n">>)

(* C14, as stated: a personal field that `data` holds as the empty string  *)
(* is written under its own name with the value None.                      *)
C14_AsStated ==
  (Returned /\ DataNonEmpty) =>
     \A k \in PersonalKeys :
       (PersonalValue(k) = Str(<< >>) /\ k \notin ScoreNames) =>
          k \in DOMAIN Output /\ Output[k] = None

(* C14, amended: a personal field that `data` holds as the empty string is *)
(* written under its own name with the empty string itself, not None       *)
(* (unless a score entry is named after the field).                        *)
C14_EmptyStringKept ==
  (Returned /\ DataNonEmpty) =>
     \A k \in PersonalKeys :
       (PersonalValue(k) = Str(<< >>) /\ k \notin ScoreNames) =>
          k \in DOMAIN Output /\ Output[k] = Str(<< >>) /\ Output[k] # None

\* first: "" and no score named first: the output holds first: ""
C14_Witness ==
  /\ Returned /\ DataNonEmpty
  /\ PersonalValue(Str(K_first)) = Str(<< >>)
  /\ Str(K_first) \notin ScoreNames
  /\ Output[Str(K_first)] = Str(<< >>)

(* C15, as stated: a personal field whose value is no string is written    *)
(* into personal_output unchanged, and the loop over the personal fields   *)
(* does not raise.                                                         *)
C15_AsStated ==
  (Called /\ DataNonEmpty) =>
     \A k \in PersonalKeys :
       PersonalValue(k).t # "str" =>
         /\ k \in DOMAIN personal_output /\ personal_output[k] = PersonalValue(k)
         /\ result # Raise("AttributeError")

----------------------------------------------------------------------------
(* C16 .. C18.  The keys of the output.                                    *)

\* the score of every entry converts, and the personal fields are strings
NothingRaises ==
  /\ WellTyped
  /\ \A i \in 1..Len(Entries) : ScoreAt(i) # None

(* C16, as stated: for a pair whose field is a key of `demo` and whose     *)
(* qualifier is missing under it, the output holds the composite key with  *)
(* the value None.                                                         *)
C16_AsStated ==
  (Called /\ NothingRaises) =>
     \A pair \in DemoPairs :
       MissingQualifier(pair) =>
         /\ Returned
         /\ KeyOfPair(pair) \in DOMAIN Output
         /\ Output[KeyOfPair(pair)] = None

\* what can make the call raise, the lookup of a qualifier aside: a
\* personal field that is no string, a demographic field that is no
\* mapping, an entry of `score` that does not convert or has no hashable name
FaultElsewhere ==
  \/ DataNonEmpty /\ \E k \in PersonalKeys :
       Truthy(PersonalValue(k)) /\ PersonalValue(k).t # "str"
  \/ \E pair \in DemoPairs :
       Str(pair[1]) \in DOMAIN DemoOf.d /\ DemoOf.d[Str(pair[1])].t # "dict"
  \/ \E i \in 1..Len(Entries) :
       Entries[i].t # "dict" \/ Unconvertible(i) \/ ~Hashable(NameAt(i))

(* C16, amended: for a pair whose field is a key of `demo` (the field a    *)
(* mapping) and whose qualifier is missing under it, the missing qualifier *)
(* raises nothing, and the mapping returned holds the composite key, with  *)
(* the value None unless a score entry has that name (the score then takes *)
(* the key).                                                               *)
C16_MissingQualifierWritten ==
  (Called /\ IsRecord /\ DemoOf.t = "dict" /\ Truthy(DemoOf)) =>
     \A pair \in DemoPairs :
       ( /\ Str(pair[1]) \in DOMAIN DemoOf.d
         /\ DemoOf.d[Str(pair[1])].t = "dict"
         /\ Str(pair[2]) \notin DOMAIN DemoOf.d[Str(pair[1])].d ) =>
         /\ result.k = "raise" => FaultElsewhere
         /\ Returned =>
              /\ KeyOfPair(pair) \in DOMAIN Output
              /\ KeyOfPair(pair) \notin ScoreNames => Output[KeyOfPair(pair)] = None

\* age: {} and affiliation: {conservative: 1}: age_years and
\* affiliation_liberal are None, affiliation_conservative is 1
C16_Witness ==
  /\ Returned /\ HasDemo
  /\ MissingQualifier(<<K_age, K_years>>)
  /\ MissingQualifier(<<K_affiliation, K_liberal>>)
  /\ ScoreNames = {Str(N_riskA)}
  /\ Output[KeyOfPair(<<K_age, K_years>>)] = None
  /\ Output[KeyOfPair(<<K_affiliation, K_liberal>>)] = None
  /\ Output[KeyOfPair(<<K_affiliation, K_conservative>>)] = IntV(1)

\* the call got as far as the merge of personal_output into demo_output
Merged ==
  /\ Called /\ IsRecord
  /\ DataOf.t \in {"none", "dict"} /\ DemoOf.t \in {"none", "dict"}
  /\ SectionsBeforeScoreWellFormed
\* the key k was not written by the score part afterwards
Untouched(k) == result.k = "raise" \/ k \notin DOMAIN scores_output

(* C17: the composite keys the code builds are none of the four personal   *)
(* field names, and after personal_output is merged into demo_output       *)
(* every composite key written holds its demographic value and every       *)
(* personal key its personal value.                                        *)
C17_NoPersonalDemoCollision ==
  /\ \A i \in 1..Len(demo_variables) :
       Str(CompositeKey(demo_variables[i][1], demo_variables[i][2]))
         \notin PersonalKeys
  /\ Merged =>
       /\ \A pair \in DemoPairs :
            ( /\ Truthy(DemoOf) /\ Str(pair[1]) \in DOMAIN DemoOf.d
              /\ Untouched(KeyOfPair(pair)) ) =>
              /\ KeyOfPair(pair) \in DOMAIN demo_output
              /\ demo_output[KeyOfPair(pair)] =
                   Get(DemoOf.d[Str(pair[1])].d, Str(pair[2]))
       /\ \A k \in PersonalKeys :
            (k \in DOMAIN personal_output /\ Untouched(k)) =>
              k \in DOMAIN demo_output /\ demo_output[k] = personal_output[k]

\* a lead with first: "JOHN" and occupation: {first: "Nurse"}: both are in
\* the output, each under its own key
C17_Witness ==
  /\ Returned /\ HasDemo /\ DataNonEmpty
  /\ Str(K_occupation) \in DOMAIN DemoOf.d
  /\ Output[KeyOfPair(<<K_occupation, K_first>>)] = Str(<<"N","u","r","s","e">>)
  /\ Output[Str(K_first)] = Str(<<"j","o","h","n">>)

\* the names the entries of `score` carry
NamesGiven ==
  {Entries[i].d[Str(K_name)] :
     i \in {j \in 1..Len(Entries) : Str(K_name) \in DOMAIN Entries[j].d}}
\* an entry of `score` carries no name
SomeNameless == \E i \in 1..Len(Entries) : Str(K_name) \notin DOMAIN Entries[i].d

(* C18, as stated: every key of the output is one of the four personal     *)
(* field names, one of the ten composites, or the name of an entry of      *)
(* `score`.                                                                *)
C18_AsStated ==
  Returned => DOMAIN Output \subseteq PersonalKeys \cup CompositeKeys \cup NamesGiven

(* C18, amended: every key of the output is one of the four personal field *)
(* names, one of the ten composites, the name of an entry of `score`, or   *)
(* the key None when an entry of `score` has no name; no other field of    *)
(* the input (address, verify, message, other keys of `data` and `demo`,   *)
(* the range of a score) appears in it.                                    *)
C18_OnlyKnownKeys ==
  Returned =>
    /\ DOMAIN Output \subseteq
         PersonalKeys \cup CompositeKeys \cup NamesGiven \cup
           (IF SomeNameless THEN {None} ELSE {})
    /\ \A k \in DOMAIN Output :
         (k \notin ScoreNames /\ IsRecord) =>
            \/ k \in PersonalKeys /\ DataNonEmpty
            \/ \E pair \in DemoPairs :
                 /\ k = KeyOfPair(pair) /\ DemoOf.t = "dict"
                 /\ Str(pair[1]) \in DOMAIN DemoOf.d

\* the lead holds dob in `data`, zip in `demo` and the range of a score:
\* none of them is a key of the output
C18_Witness ==
  /\ Returned /\ HasDemo /\ DataNonEmpty
  /\ Str(K_dob) \in DOMAIN DataOf.d /\ Str(K_zip) \in DOMAIN DemoOf.d
  /\ \E i \in 1..Len(Entries) : Str(K_range) \in DOMAIN Entries[i].d
  /\ Str(K_dob) \notin DOMAIN Output /\ Str(K_zip) \notin DOMAIN Output
  /\ Str(K_range) \notin DOMAIN Output
  /\ DOMAIN Output # {}

----------------------------------------------------------------------------
----------------------------------------------------------------------------
(* C20.  The wait for the feature group.                                   *)

\* the wait function has left its loop
LoopLeft == nb_pc \in {"check", "returned", "raised"}
\* the Waiting messages printed so far
Waitings == Len(SelectSeq(printed, LAMBDA m : m = MsgWaiting))

(* C20: wait_for_feature_group_creation_complete polls for as long as the  *)
(* status read is "Creating" (one message and one sleep per such read); it *)
(* leaves the loop at the first status read that is not "Creating",        *)
(* returns normally only if that status is "Created", and raises           *)
(* RuntimeError for every other one; when it returns normally the group is *)
(* neither being created nor failed to be created.                         *)
C20_WaitOutcome ==
  /\ nb_pc \in {"sleep", "describe"} /\ Len(reads) > 0 =>
       \A i \in 1..Len(reads) : reads[i] = "Creating"
  /\ LoopLeft =>
       /\ Len(reads) > 0 /\ status = reads[Len(reads)]
       /\ status # "Creating"
       /\ \A i \in 1..(Len(reads) - 1) : reads[i] = "Creating"
       /\ polls = Len(reads) - 1 /\ Waitings = polls
  /\ nb_pc = "returned" =>
       /\ status = "Created" /\ wait_result = Return(None)
       /\ fg_status \notin {"Creating", "CreateFailed"}
       /\ printed[Len(printed)] = MsgCreated
  /\ nb_pc = "raised" =>
       /\ status \in {"CreateFailed", "Deleting", "DeleteFailed"}
       /\ wait_result = Raise("RuntimeError")
       /\ \A i \in 1..Len(printed) : printed[i] # MsgCreated
  /\ nb_pc \in {"create", "describe", "test", "sleep", "check"} =>
       wait_result = Unset

\* two reads of "Creating", two sleeps, then "Created": the function returns
C20_Witness ==
  /\ nb_pc = "returned"
  /\ reads = <<"Creating", "Creating", "Created">>
  /\ polls = 2
  /\ printed = <<MsgWaiting, MsgWaiting, MsgCreated>>

----------------------------------------------------------------------------
(* C21.  The order of the notebook's steps.                                *)

\* the step e has happened, and where in the run
Happened(e) == \E i \in 1..Len(events) : events[i] = e
At(e) == CHOOSE i \in 1..Len(events) : events[i] = e
\* b has not happened, or a happened before it
Before(a, b) == Happened(b) => (Happened(a) /\ At(a) < At(b))
\* the steps of a run that goes through, in the order of the cells
StepsOfRun ==
  <<"ingest", "data_available", "query_run", "query_finished", "dataset_built",
    "fit_started", "fit_finished", "deploy_started", "deployed", "predict",
    "delete_endpoint", "delete_group">>

(* C21: in every run of the Feature Store notebook, the feature group has  *)
(* been created and read as "Created" before any record is ingested; a     *)
(* listing with at least one object has been seen before the Athena query  *)
(* is run; the query has succeeded before the dataset is built and the     *)
(* training started; the training has completed before the endpoint is     *)
(* deployed; the endpoint and the feature group are deleted after the      *)
(* prediction only; and each step starts after the one before it ended.    *)
C21_StepsInOrder ==
  /\ \A i \in 1..Len(events) : events[i] = StepsOfRun[i]
  /\ \A i \in 1..(Len(StepsOfRun) - 1) : Before(StepsOfRun[i], StepsOfRun[i + 1])
  /\ (ingested \/ store_objects > 0 \/ Happened("ingest")) =>
       /\ Happened("ingest")
       /\ wait_result = Return(None)
       /\ Len(reads) > 0 /\ reads[Len(reads)] = "Created"
  /\ (query_state # "none" \/ Happened("query_run")) =>
       /\ Happened("data_available") /\ Happened("query_run")
       /\ objects_in_bucket # Unset
       /\ objects_in_bucket.has_contents /\ objects_in_bucket.len >= 1
       /\ offline_store_contents # None /\ offline_store_contents.len >= 1
       /\ store_objects >= 1
  /\ (training_status # "none" \/ Happened("dataset_built")) =>
       Happened("query_finished") /\ query_state = "SUCCEEDED"
  /\ training_status # "none" => Happened("fit_started")
  /\ (endpoint_status # "none" \/ Happened("deploy_started")) =>
       Happened("fit_finished") /\ training_status = "Completed"
  /\ Happened("predict") => endpoint_status \in {"InService", "Deleted"}
  /\ (endpoint_status = "Deleted" \/ Happened("delete_endpoint")
        \/ Happened("delete_group")) => Happened("predict")

\* a run that went through, after the offline store kept the notebook
\* waiting twice
C21_Witness ==
  /\ nb_pc = "end"
  /\ events = StepsOfRun
  /\ offline_waits = 2 /\ polls >= 1
  /\ endpoint_status = "Deleted"

----------------------------------------------------------------------------
(* C22.  The wait for the offline store.                                   *)

\* the notebook is in the offline-store loop
InOfflineLoop == nb_pc \in {"offline_test", "offline_list", "offline_sleep"}
\* the loop has been left, and 'Data available.' printed
OfflineLoopLeft ==
  /\ nb_pc \notin {"create", "describe", "test", "sleep", "check", "returned",
                   "raised", "offline_start"}
  /\ ~InOfflineLoop
  /\ \E i \in 1..Len(printed) : printed[i] = MsgAvailable

(* C22: the offline-store loop is left only after a listing of the prefix  *)
(* has returned one object or more (so never while the store holds none);  *)
(* no count of attempts and no clock ends it: while no such listing has    *)
(* been seen, every step of the notebook stays in the loop; and once the   *)
(* store holds an object under the prefix, the loop is eventually left and *)
(* the data reported as available.                                         *)
C22_OfflineWait ==
  /\ [](OfflineLoopLeft =>
          /\ objects_in_bucket.has_contents /\ objects_in_bucket.len >= 1
          /\ offline_store_contents # None
          /\ store_objects >= 1)
  /\ []((\E i \in 1..Len(printed) : printed[i] = MsgAvailable) =>
          (offline_store_contents # None /\ store_objects >= 1))
  /\ [][(InOfflineLoop /\ offline_store_contents = None) => InOfflineLoop']_vars
  /\ ((InOfflineLoop /\ store_objects >= 1) ~> OfflineLoopLeft)

\* the loop has slept three times on an empty store, then a listing showed
\* an object and the loop was left
C22_Witness ==
  /\ nb_pc = "athena_run"
  /\ offline_waits = MaxWaits
  /\ objects_in_bucket = [has_contents |-> TRUE, len |-> 1]
  /\ printed[Len(printed)] = MsgAvailable

====
